---- MODULE Spec2Model ----
(***************************************************************************)
(* Model of hotel_agent_script.py: the per-property vendor fingerprinting  *)
(* pipeline (main, fingerprint_booking_vendor), its pure helpers           *)
(* (normalize_url, host, classify_vendor_from_url,                         *)
(* best_vendor_from_evidence, looks_like_bot_block) and the Gemini retry   *)
(* loops.                                                                  *)
(*                                                                         *)
(* Strings are sequences of tokens.  A token is an indivisible chunk of    *)
(* characters; the alphabet is chosen so that every pattern the program    *)
(* searches for is a sequence of whole tokens and no pattern can occur     *)
(* across a token boundary in any other way.  Substring search, prefix     *)
(* tests, strip() and lower() on the program's strings are then exactly    *)
(* the corresponding operations on token sequences.                        *)
(***************************************************************************)
EXTENDS Integers, Sequences, FiniteSets, TLC

\* ------------------------------------------------------------------------
\* String primitives (Python str operations on token sequences)
\* ------------------------------------------------------------------------

\* s[i:i+len(p)] == p
MatchAt(s, i, p) ==
    /\ i + Len(p) - 1 <= Len(s)
    /\ \A k \in 1..Len(p) : s[i + k - 1] = p[k]

\* Python's  p in s
Contains(s, p) ==
    \E i \in 1..(Len(s) + 1) : MatchAt(s, i, p)

\* Python's  s.startswith(p)
StartsWith(s, p) == MatchAt(s, 1, p)

\* any(x in s for x in pats)
ContainsAny(s, pats) ==
    \E k \in 1..Len(pats) : Contains(s, pats[k])

\* the characters str.lower() changes
LowerTok(t) ==
    CASE t = "SynXis" -> "synxis"
      [] t = "Book" -> "book"
      [] t = "Hotels" -> "hotels"
      [] t = "Access" -> "access"
      [] t = "Denied" -> "denied"
      [] t \in {"Verify", "VERIFY"} -> "verify"
      [] t = "YOU" -> "you"
      [] t = "HUMAN" -> "human"
      [] t = "HTTPS:" -> "https:"
      [] t = "The" -> "the"
      [] t = "Reeds" -> "reeds"
      [] t = "Inn" -> "inn"
      [] t = "Reservation" -> "reservation"
      [] OTHER -> t

\* Python's  s.lower()
RECURSIVE Lower(_)
Lower(s) == IF s = <<>> THEN <<>> ELSE <<LowerTok(Head(s))>> \o Lower(Tail(s))

IsSpace(t) == t \in {" ", "\n"}

\* Python's  s.strip()
Strip(s) ==
    LET keep == {i \in 1..Len(s) : ~IsSpace(s[i])}
    IN  IF keep = {} THEN <<>>
        ELSE LET lo == CHOOSE i \in keep : \A j \in keep : i <= j
                 hi == CHOOSE i \in keep : \A j \in keep : j <= i
             IN  SubSeq(s, lo, hi)

\* s[:n]
Take(s, n) == SubSeq(s, 1, IF Len(s) < n THEN Len(s) ELSE n)

\* order-preserving de-duplication (the  out, seen = [], set()  loops): an
\* element is kept where it occurs first
Dedup(s) ==
    LET first == SelectSeq([i \in 1..Len(s) |-> i] \o <<>>,
                           LAMBDA i : \A j \in 1..(i - 1) : s[j] # s[i])
    IN  [k \in 1..Len(first) |-> s[first[k]]] \o <<>>

\* ------------------------------------------------------------------------
\* URL helpers
\* ------------------------------------------------------------------------

SchemeToks == {"https:", "http:"}

\* urlparse(url).scheme as written in the URL ("" when there is none)
HasScheme(u) == Len(u) >= 1 /\ LowerTok(u[1]) \in SchemeToks

AfterScheme(u) == IF HasScheme(u) THEN Tail(u) ELSE u

\* urlparse(url).netloc: what follows "//" up to the next "/", "?" or "#"
Netloc(u) ==
    LET r == AfterScheme(u)
    IN  IF ~StartsWith(r, <<"/", "/">>) THEN <<>>
        ELSE LET rest == SubSeq(r, 3, Len(r))
                 stops == {i \in 1..Len(rest) : rest[i] \in {"/", "?", "#"}}
                 stop == IF stops = {} THEN Len(rest) + 1
                         ELSE CHOOSE i \in stops : \A j \in stops : i <= j
             IN  SubSeq(rest, 1, stop - 1)

\* urlsplit raises ValueError("Invalid IPv6 URL") on an unbalanced bracket
\* in the netloc
UrlparseRaises(u) ==
    LET n == Netloc(u)
        open == \E i \in 1..Len(n) : n[i] = "["
        close == \E i \in 1..Len(n) : n[i] = "]"
    IN  open # close

\* what urlparse followed by urlunparse leaves of the part of a URL after
\* its scheme: urlsplit removes line breaks, the fragment starts at the
\* first "#" and the query at the first "?" before it, and an empty query
\* or fragment is written back without its "?" or "#"
Unparse(r0) ==
    LET r == SelectSeq(r0, LAMBDA t : t # "\n")
        hs == {i \in 1..Len(r) : r[i] = "#"}
        h == IF hs = {} THEN Len(r) + 1 ELSE CHOOSE i \in hs : \A j \in hs : i <= j
        pre == SubSeq(r, 1, h - 1)
        frag == SubSeq(r, h + 1, Len(r))
        qs == {i \in 1..Len(pre) : pre[i] = "?"}
        qm == IF qs = {} THEN Len(pre) + 1 ELSE CHOOSE i \in qs : \A j \in qs : i <= j
        path == SubSeq(pre, 1, qm - 1)
        query == SubSeq(pre, qm + 1, Len(pre))
    IN  path \o (IF query = <<>> THEN <<>> ELSE <<"?">> \o query)
             \o (IF frag = <<>> THEN <<>> ELSE <<"#">> \o frag)

\* urljoin(base, u): an absolute u of another scheme is returned as it is,
\* one of the base's scheme is re-assembled, "//host/.." takes the base's
\* scheme, "/path" the base's scheme and host, anything else is resolved
\* against the base's directory (the bases used here have an empty path)
urljoin(base, u) ==
    IF u = <<>> THEN base
    ELSE IF HasScheme(u)
         THEN (IF LowerTok(u[1]) = base[1] THEN <<base[1]>> \o Unparse(Tail(u)) ELSE u)
    ELSE IF StartsWith(u, <<"/", "/">>) THEN <<base[1]>> \o Unparse(u)
    ELSE IF StartsWith(u, <<"/">>) THEN <<base[1], "/", "/">> \o Netloc(base) \o Unparse(u)
    ELSE <<base[1], "/", "/">> \o Netloc(base) \o <<"/">> \o Unparse(u)

urljoin_raises(base, u) == UrlparseRaises(u) \/ UrlparseRaises(base)

\* normalize_url(u, base); base = <<>> stands for base=None
normalize_url(u0, base) ==
    LET u == Strip(u0)
    IN  IF u = <<>> THEN <<>>
        ELSE IF base # <<>> /\ StartsWith(u, <<"/">>) THEN urljoin(base, u)
        ELSE IF StartsWith(u, <<"/", "/">>) THEN <<"https:">> \o u
        ELSE IF ~(StartsWith(u, <<"http:", "/", "/">>)
                  \/ StartsWith(u, <<"https:", "/", "/">>))
             THEN <<"https:", "/", "/">> \o u
        ELSE u

\* normalize_url raises only through urljoin's urlparse of its arguments
normalize_url_raises(u0, base) ==
    LET u == Strip(u0)
    IN  /\ u # <<>>
        /\ base # <<>>
        /\ StartsWith(u, <<"/">>)
        /\ urljoin_raises(base, u)

\* host(url) raises when urlparse does
host_raises(url) == UrlparseRaises(url)

host(url) == Lower(Netloc(url))

\* ------------------------------------------------------------------------
\* Vendor fingerprints
\* ------------------------------------------------------------------------

SynXis == "SynXis (Sabre Hospitality)"
IHotelier == "iHotelier / TravelClick (Amadeus)"
Cloudbeds == "Cloudbeds"
WebRezPro == "WebRezPro"
StayNTouch == "StayNTouch"
SHR == "SHR / Windsurfer"
Affiliate == "Affiliate/OTA (Not official CRS)"
Unknown == "Unknown"

\* the dict in insertion order
VENDOR_PATTERNS == <<
    [vendor |-> SynXis, patterns |-> <<
        <<"synxis", ".com">>, <<"be.", "synxis", ".com">>,
        <<"synxis", ".com", "/", "rez">>,
        <<"synxis", ".com", "/", "reservation", "s">> >>],
    [vendor |-> IHotelier, patterns |-> <<
        <<"ihotelier", ".com">>, <<"travelclick", ".com">>,
        <<"reservation", "s", ".", "travelclick", ".com">>,
        <<"secure-", "reservation">> >>],
    [vendor |-> Cloudbeds, patterns |-> <<
        <<"cloudbeds", ".com">>, <<"hotels", ".", "cloudbeds", ".com">> >>],
    [vendor |-> WebRezPro, patterns |-> <<
        <<"webrezpro", ".com">>,
        <<"reservation", "s", ".", "webrezpro", ".com">> >>],
    [vendor |-> StayNTouch, patterns |-> <<
        <<"stayntouch">>, <<"stayntouch", ".com">> >>],
    [vendor |-> SHR, patterns |-> <<
        <<"windsurfer">>, <<"windsurfer", "crs">>, <<"shr", "group">>,
        <<"shr", ".", "global">>, <<"shr">> >>] >>

AFFILIATE_PATTERNS == <<
    <<"guest", "reservation", "s", ".com">>,
    <<"reservation", "desk", ".com">>,
    <<"hotelplanner", ".com">>,
    <<"reservation", "s", ".com">> >>

\* the keyword lists of lines 168, 176, 369 and 483
ScoreHints == << <<"/", "book">>, <<"/", "book", "ing">>,
                 <<"/", "reservation", "s">>, <<"reservation">>,
                 <<"availability">> >>
MediumHints == << <<"/", "book">>, <<"/", "book", "ing">>,
                  <<"/", "reservation", "s">>, <<"availability">> >>
ExtractHints == << <<"/", "book", "ing">>, <<"/", "book">>,
                   <<"/", "reservation", "s">>, <<"/", "availability">>,
                   <<"reservation">> >>
SearchHints == << <<"/", "book", "ing">>, <<"/", "book">>,
                  <<"/", "reservation", "s">>, <<"reservation">>,
                  <<"availability">> >>

\* vendors whose patterns occur in the lower-cased URL or in its host
VendorHits(url) ==
    {v \in 1..Len(VENDOR_PATTERNS) :
        \/ ContainsAny(Lower(url), VENDOR_PATTERNS[v].patterns)
        \/ ContainsAny(host(url), VENDOR_PATTERNS[v].patterns)}

\* any(p.lower() in s for plist in VENDOR_PATTERNS.values() for p in plist)
MatchesVendorPattern(s) ==
    \E v \in 1..Len(VENDOR_PATTERNS) : ContainsAny(s, VENDOR_PATTERNS[v].patterns)

\* any(a in h for a in AFFILIATE_PATTERNS)
MatchesAffiliate(h) == ContainsAny(h, AFFILIATE_PATTERNS)

\* classify_vendor_from_url(url) -> (vendor, confidence band)
classify_vendor_from_url(url) ==
    LET hits == VendorHits(url)
    IN  IF hits # {}
        THEN [vendor |-> VENDOR_PATTERNS[CHOOSE v \in hits :
                                            \A w \in hits : v <= w].vendor,
              conf |-> "High"]
        ELSE IF MatchesAffiliate(host(url))
        THEN [vendor |-> Affiliate, conf |-> "Low"]
        ELSE [vendor |-> Unknown, conf |-> "Low"]

\* score += 100 / 10 / 15
HighBonus == 100
AffiliateBonus == 10
HintBonus == 15

ScoreOf_mut(u) ==
    LET c == classify_vendor_from_url(u)
    IN  [score |-> (IF c.vendor = Affiliate THEN AffiliateBonus ELSE 0)
                   + (IF ContainsAny(Lower(u), ScoreHints) THEN HintBonus ELSE 0),
         vendor |-> c.vendor, conf |-> c.conf, url |-> u]

\* the body of the scoring loop: (score, vendor, conf, u)
ScoreOf(u) ==
    LET c == classify_vendor_from_url(u)
    IN  [score |-> (IF c.conf = "High" THEN HighBonus ELSE 0)
                   + (IF c.vendor = Affiliate THEN AffiliateBonus ELSE 0)
                   + (IF ContainsAny(Lower(u), ScoreHints) THEN HintBonus ELSE 0),
         vendor |-> c.vendor, conf |-> c.conf, url |-> u]

ScoreAll(evidence_urls) ==
    [i \in 1..Len(evidence_urls) |-> ScoreOf(evidence_urls[i])] \o <<>>

\* scored.sort(key=score, reverse=True): the sort is stable, so an entry
\* goes after every entry of a higher score and after the earlier entries
\* of its own score
SortByScoreDesc(sc) ==
    LET rank(i) == Cardinality({j \in 1..Len(sc) :
                        \/ sc[j].score > sc[i].score
                        \/ (sc[j].score = sc[i].score /\ j < i)}) + 1
    IN  [r \in 1..Len(sc) |-> sc[CHOOSE i \in 1..Len(sc) : rank(i) = r]]

\* lines 173-179: take scored[0], bump an Unknown booking-ish URL to Medium
PickTop(sorted) ==
    LET top == sorted[1]
    IN  [vendor |-> top.vendor, url |-> top.url,
         conf |-> IF top.vendor = Unknown /\ ContainsAny(Lower(top.url), MediumHints)
                  THEN "Medium" ELSE top.conf]

EmptyResult_mut == [vendor |-> Unknown, url |-> <<>>, conf |-> "Medium"]

\* line 156
EmptyResult == [vendor |-> Unknown, url |-> <<>>, conf |-> "Low"]

\* best_vendor_from_evidence(evidence_urls) -> (vendor, url, conf)
best_vendor_from_evidence(evidence_urls) ==
    IF evidence_urls = <<>> THEN EmptyResult
    ELSE PickTop(SortByScoreDesc(ScoreAll(evidence_urls)))

\* ------------------------------------------------------------------------
\* Bot-wall detection and HTML scraping
\* ------------------------------------------------------------------------

BOT_BLOCK_PATTERNS == <<
    <<"are", " ", "you", " ", "a", " ", "human">>,
    <<"verify", " ", "you", " ", "are", " ", "human">>,
    <<"verification", " ", "required">>,
    <<"captcha">>,
    <<"access", " ", "denied">>,
    <<"unusual", " ", "traffic">>,
    <<"cloudflare">>,
    <<"checking", " ", "your", " ", "browser">>,
    <<"security", " ", "check">> >>

\* An HTML body: its text and, in document order, its tags with the URL
\* attribute each carries (href or src).  The empty body has neither.
Html(text, tags) == [text |-> text, tags |-> tags]
NoHtml == Html(<<>>, <<>>)
Tag(name, ref) == [name |-> name, ref |-> ref]

\* looks_like_bot_block without the lower-casing
looks_like_bot_block_mut(html) ==
    IF html = NoHtml THEN FALSE
    ELSE \/ ContainsAny(html.text, BOT_BLOCK_PATTERNS)
         \/ \E i \in 1..Len(html.tags) :
                ContainsAny(html.tags[i].ref, BOT_BLOCK_PATTERNS)

\* any(p in html.lower() for p in BOT_BLOCK_PATTERNS): a phrase occurs in
\* the text or inside one attribute value (markup separates the pieces, so
\* no phrase spans two of them)
looks_like_bot_block(html) ==
    IF html = NoHtml THEN FALSE
    ELSE \/ ContainsAny(Lower(html.text), BOT_BLOCK_PATTERNS)
         \/ \E i \in 1..Len(html.tags) :
                ContainsAny(Lower(html.tags[i].ref), BOT_BLOCK_PATTERNS)

\* A fetch outcome: an exception (network error, timeout) or (status, body)
NetErr == [err |-> TRUE, status |-> 0, html |-> NoHtml]
Page(status, html) == [err |-> FALSE, status |-> status, html |-> html]

\* [a["href"] for a in soup.find_all("a", href=True)]
Hrefs(tags) ==
    LET as == SelectSeq(tags, LAMBDA t : t.name = "a")
    IN  [i \in 1..Len(as) |-> as[i].ref] \o <<>>

\* if href.startswith(("http://", "https://"))
HttpOnly(urls) ==
    SelectSeq(urls, LAMBDA u : \/ StartsWith(u, <<"http:", "/", "/">>)
                               \/ StartsWith(u, <<"https:", "/", "/">>))

\* the body both DuckDuckGo searches share: [] on an exception, a status
\* >= 400 or an empty body, else the de-duplicated absolute links
ddg_links(resp) ==
    IF resp.err \/ resp.status >= 400 \/ resp.html = NoHtml THEN <<>>
    ELSE Dedup(HttpOnly(Hrefs(resp.html.tags)))

ddg_html_search(resp) == ddg_links(resp)
ddg_lite_search(resp) == ddg_links(resp)

NumQueries == 7

TW_BASE == <<"https:", "/", "/", "www.", "travelweekly", ".com">>

\* travelweekly_internal_search: the first "/Hotels/" link that is not a
\* "/Travel-News/" link, joined to the site; <<>> stands for None
travelweekly_internal_search(resp) ==
    IF resp.err \/ resp.status >= 400 \/ resp.html = NoHtml THEN <<>>
    ELSE LET hs == Hrefs(resp.html.tags)
             ok == {i \in 1..Len(hs) :
                        /\ Contains(hs[i], <<"/", "Hotels", "/">>)
                        /\ ~Contains(hs[i], <<"/", "Travel-News", "/">>)}
         IN  IF ok = {} THEN <<>>
             ELSE urljoin(TW_BASE, hs[CHOOSE i \in ok : \A j \in ok : i <= j])

ExtractTagNames == {"a", "script", "iframe", "link"}

\* the tags extract_vendorish_links_from_html looks at, with a URL
TagUrls(tags) ==
    LET ts == SelectSeq(tags, LAMBDA t : t.name \in ExtractTagNames /\ t.ref # <<>>)
    IN  [i \in 1..Len(ts) |-> ts[i].ref] \o <<>>

\* the filter of lines 365-370 on a normalized URL
ExtractKeeps(full) ==
    \/ MatchesVendorPattern(Lower(full))
    \/ MatchesAffiliate(host(full))
    \/ ContainsAny(Lower(full), ExtractHints)

ExtractFound(urls, base_url) ==
    SelectSeq([i \in 1..Len(urls) |-> normalize_url(urls[i], base_url)] \o <<>>,
              ExtractKeeps)

\* normalize_url or host raises on one of the page's URLs
extract_raises(html, base_url) ==
    \E i \in 1..Len(TagUrls(html.tags)) :
        LET u == TagUrls(html.tags)[i]
        IN  \/ normalize_url_raises(u, base_url)
            \/ host_raises(normalize_url(u, base_url))

extract_vendorish_links_from_html(html, base_url) ==
    Dedup(ExtractFound(TagUrls(html.tags), base_url))

LinkCap == 25

\* the filter of lines 479-484 on a normalized search result
SearchKeeps(u2) ==
    \/ MatchesVendorPattern(Lower(u2))
    \/ MatchesAffiliate(host(u2))
    \/ ContainsAny(Lower(u2), SearchHints)

\* lines 474-484 for one query's links: the candidates appended
SearchFound(links) ==
    SelectSeq([i \in 1..Len(links) |-> normalize_url(links[i], <<>>)] \o <<>>,
              LAMBDA u2 : u2 # <<>> /\ SearchKeeps(u2))

\* host(u2) raises on one of the first 25 links
search_raises(links) ==
    \E i \in 1..Len(Take(links, LinkCap)) :
        LET u2 == normalize_url(links[i], <<>>)
        IN  u2 # <<>> /\ host_raises(u2)

\* ------------------------------------------------------------------------
\* The environment: what the external sources answer
\* ------------------------------------------------------------------------

U_synxis == <<"https:", "/", "/", "be.", "synxis", ".com", "/", "rez">>
U_synxisSlash == U_synxis \o <<"/">>
U_synxisRel == <<"/", "/", "be.", "synxis", ".com", "/", "rez">>
U_cloudbeds == <<"https:", "/", "/", "hotels", ".", "cloudbeds", ".com", "/", "x">>
U_affil == <<"https:", "/", "/", "www.", "reservation", "s", ".com", "/", "x">>
U_planner == <<"https:", "/", "/", "hotelplanner", ".com", "/", "x">>
U_book == <<"https:", "/", "/", "inn", ".com", "/", "book">>
U_myres == <<"https:", "/", "/", "inn", ".com", "/", "my-", "reservation">>
U_about == <<"https:", "/", "/", "inn", ".com", "/", "about">>
U_bad == <<"https:", "/", "/", "[", "inn", ".com", "/", "book">>
U_rootBook == <<"/", "Book">>
U_official == <<"https:", "/", "/", "inn", ".com">>
U_twHotel == <<"/", "Hotels", "/", "x">>
U_twNews == <<"/", "Travel-News", "/", "Hotels", "/", "x">>

\* how many distinct booking-path links the long directory page carries
NumBulk == 80

Fill == <<"f0", "f1", "f2", "f3", "f4", "f5", "f6", "f7", "f8", "f9">>

\* https://inn.com/book/f0f0, https://inn.com/book/f0f1, ...: all distinct
BulkLinks ==
    [k \in 1..NumBulk |->
        U_book \o <<"/", Fill[((k - 1) \div 10) + 1], Fill[((k - 1) % 10) + 1]>>] \o <<>>

ATags(urls) == [i \in 1..Len(urls) |-> Tag("a", urls[i])] \o <<>>

Welcome == <<"welcome">>
Denied == <<"Access", " ", "Denied">>

P_forbidden == Page(403, Html(Denied, <<>>))
P_blocked == Page(200, Html(Denied, ATags(<<U_book>>)))
P_nothing == Page(200, Html(Welcome, <<>>))

TwSearchPages == {
    NetErr,
    P_forbidden,
    Page(200, Html(Welcome, ATags(<<U_twNews, U_twHotel>>))) }

TwDetailPages == {
    NetErr,
    P_forbidden,
    P_blocked,
    Page(200, Html(Welcome, ATags(<<U_synxis, U_about, U_synxisSlash, U_synxisRel>>))),
    Page(200, Html(Welcome, ATags(<<U_synxis, U_bad>>))),
    Page(200, Html(Welcome, ATags(BulkLinks \o <<U_synxis>>))) }

OfficialPages == {
    NetErr,
    Page(500, NoHtml),
    P_blocked,
    Page(200, Html(Welcome, <<Tag("script", U_cloudbeds), Tag("a", U_rootBook),
                               Tag("img", U_affil)>>)) }

SearchPages == {
    P_forbidden,
    P_blocked,
    Page(200, Html(Welcome, ATags(<<U_affil, U_book, U_about>>))),
    Page(200, Html(Welcome, ATags(<<U_book, U_bad>>))),
    Page(200, Html(Welcome, ATags(<<U_planner, U_myres, U_synxis>>))) }

LitePages == {
    NetErr,
    Page(200, Html(Welcome, ATags(<<U_planner, U_book>>))) }

\* the query that is answered differently from the others
OddQuery == 2

\* every query finds nothing, or every query is refused except one
SearchProfiles ==
    {[k \in 1..NumQueries |-> P_nothing]} \cup
    {[k \in 1..NumQueries |-> IF k = OddQuery THEN special ELSE P_forbidden] :
        special \in SearchPages}

\* the directory's hotel page matters only when the search finds it
DirectoryAnswers ==
    {<<a, NetErr>> : a \in TwSearchPages} \cup
    {<<a, b>> : a \in {p \in TwSearchPages : travelweekly_internal_search(p) # <<>>},
                b \in TwDetailPages}

Worlds ==
    {[twSearch |-> ab[1], twDetail |-> ab[2], official |-> c, ddgHtml |-> d,
      ddgLite |-> e] :
        ab \in DirectoryAnswers, c \in OfficialPages,
        d \in SearchProfiles, e \in LitePages}

\* ------------------------------------------------------------------------
\* Input parsing (ZoomInfo e-mail or a single hotel name)
\* ------------------------------------------------------------------------

PMS == <<"Property", " ", "Management", " ", "Software">>
RSys == <<"Reservation", " ", "System">>
GDS == <<"Global", " ", "Distribution", " ", "System">>

\* tokens that are a run of decimal digits, with their value
DigitToks == {"64", "7"}
IntOf(t) == IF t = "64" THEN 64 ELSE 7

\* tokens one character long
OneCharToks == {"x", "s", "/", " ", "\n", ">", "?", "[", "]", "."}
ShorterThan2(name) == name = <<>> \/ (Len(name) = 1 /\ name[1] \in OneCharToks)

NoCategory == <<>>
NoScore == -1
PropertyRow(name, cat, score) ==
    [hotel_name |-> name, category |-> cat, score |-> score]

\* the maximal runs of tokens outside seps, in order
RECURSIVE Runs(_, _, _, _)
Runs(s, seps, cur, out) ==
    IF s = <<>> THEN (IF cur = <<>> THEN out ELSE Append(out, cur))
    ELSE IF Head(s) \in seps
         THEN Runs(Tail(s), seps, <<>>, IF cur = <<>> THEN out ELSE Append(out, cur))
         ELSE Runs(Tail(s), seps, Append(cur, Head(s)), out)

\* [ln.strip() for ln in body.splitlines() if ln.strip()]
Lines(body) ==
    LET raw == Runs(body, {"\n"}, <<>>, <<>>)
        kept == {i \in 1..Len(raw) : Strip(raw[i]) # <<>>}
        RECURSIVE Pick(_)
        Pick(i) == IF i > Len(raw) THEN <<>>
                   ELSE (IF i \in kept THEN <<Strip(raw[i])>> ELSE <<>>) \o Pick(i + 1)
    IN  Pick(1)

\* " ".join(words)
RECURSIVE JoinWords(_)
JoinWords(ws) ==
    IF ws = <<>> THEN <<>>
    ELSE IF Len(ws) = 1 THEN ws[1]
    ELSE ws[1] \o <<" ">> \o JoinWords(Tail(ws))

\* the regex of line 231 on one whitespace-compacted line: it matches when
\* the line has at least three words and the last is 1-3 digits; the lazy
\* first group then takes the first word, the second everything between
LineRows(ln) ==
    LET ws == Runs(ln, {" "}, <<>>, <<>>)
        n == Len(ws)
    IN  IF n >= 3 /\ Len(ws[n]) = 1 /\ ws[n][1] \in DigitToks
        THEN <<PropertyRow(ws[1], JoinWords(SubSeq(ws, 2, n - 1)), IntOf(ws[n][1]))>>
        ELSE <<>>

RECURSIVE PlainRows(_)
PlainRows(lines) ==
    IF lines = <<>> THEN <<>>
    ELSE LineRows(Head(lines)) \o PlainRows(Tail(lines))

\* the text of every <a> element, in order
RECURSIVE AnchorTexts(_, _, _, _)
AnchorTexts(s, inside, cur, out) ==
    IF s = <<>> THEN out
    ELSE IF ~inside
         THEN AnchorTexts(Tail(s), StartsWith(s, <<"<a">>), <<>>, out)
    ELSE IF Head(s) = "</a>"
         THEN AnchorTexts(Tail(s), FALSE, <<>>, Append(out, Strip(cur)))
    ELSE AnchorTexts(Tail(s), TRUE,
                     IF Head(s) = ">" /\ cur = <<>> THEN cur ELSE Append(cur, Head(s)),
                     out)

RECURSIVE AnchorRows(_)
AnchorRows(names) ==
    IF names = <<>> THEN <<>>
    ELSE (IF ShorterThan2(Head(names)) THEN <<>>
          ELSE <<PropertyRow(Head(names), NoCategory, NoScore)>>)
         \o AnchorRows(Tail(names))

\* order-preserving de-duplication of rows by a key of the hotel name
RECURSIVE DedupRows(_, _, _, _)
DedupRows(rows, seen, out, skipEmpty) ==
    IF rows = <<>> THEN out
    ELSE LET k == Lower(Strip(Head(rows).hotel_name))
         IN  IF (skipEmpty /\ k = <<>>) \/ k \in seen
             THEN DedupRows(Tail(rows), seen, out, skipEmpty)
             ELSE DedupRows(Tail(rows), seen \cup {k}, Append(out, Head(rows)), skipEmpty)

HasAnchors(body) ==
    Contains(Lower(body), <<"<a">>) /\ Contains(Lower(body), <<"</a>">>)

parse_zoominfo_email(body0) ==
    LET body == Strip(body0)
    IN  IF body = <<>> THEN <<>>
        ELSE IF HasAnchors(body)
        THEN DedupRows(AnchorRows(AnchorTexts(body, FALSE, <<>>, <<>>)), {}, <<>>, FALSE)
        ELSE PlainRows(Lines(body))

detect_input_mode(body) ==
    LET b == Strip(body)
    IN  IF b = <<>> THEN "single"
        ELSE IF Contains(b, PMS) \/ Contains(b, RSys) \/ Contains(b, GDS) THEN "list"
        ELSE IF HasAnchors(b) THEN "list"
        ELSE "single"

\* lines 554-574 of main: the properties to process
ResolveProperties(input) ==
    LET parsed == IF detect_input_mode(input) = "list"
                  THEN parse_zoominfo_email(input) ELSE <<>>
        props == IF parsed = <<>>
                 THEN <<PropertyRow(input, NoCategory, NoScore)>> ELSE parsed
    IN  DedupRows(props, {}, <<>>, TRUE)

I_name == <<"The", " ", "Reeds">>
I_listLine == <<"The", " ", "Reeds", " ">> \o PMS \o <<" ", "64">>
I_list == <<"Reeds", " ">> \o PMS \o <<" ", "64", "\n",
            "Inn", " ">> \o RSys \o <<" ", "7", "\n", " ", "\n",
            "reeds", " ", "x", " ", "7">>
I_html == <<"<a", ">", "Reeds", "</a>", " ", "<a", ">", "x", "</a>",
            "<a", ">", " ", "reeds", "</a>", "\n", "<a", ">", "Inn", "</a>">>

\* a free-form block of several lines that is no list
I_block == <<"x", " ", "The", "\n", "\n", "Reeds", " ", " ", "Inn", " ", "x", "\n", "x">>

RawInputs == {<<>>, <<" ", "\n">>, I_name, <<" ">> \o I_name \o <<"\n">>,
              I_listLine, I_list, I_html, I_block}

\* ------------------------------------------------------------------------
\* Program state
\* ------------------------------------------------------------------------

VARIABLES
    client,                 \* TRUE when GEMINI_API_KEY gave a client
    world,                  \* what the external pages answer in this run
    EMAIL_INPUT,            \* the stripped environment variable
    pc,                     \* where main is
    properties, idx,        \* the rows processed and the loop index
    hotel_name,
    chain_code,
    attempt, calls, sleeps, \* the running Gemini lookup: attempt number, calls
                            \* made, and the delays slept so far
    tw_url, official_url,
    q,                      \* the search query being run
    evidence, notes,
    best,                   \* (vendor, url, conf) from best_vendor_from_evidence
    finding,                \* <<>> or the one BookingFinding just built
    all_booking_findings, output_rows,
    run_status, crash_file,
    rk_pc, rk_urls, rk_scored, rk_result,  \* a stand-alone ranking call
    nz_pc, nz_u, nz_base, nz_once, nz_twice,   \* normalize_url applied twice
    bb_pc, bb_status, bb_html, bb_result   \* looks_like_bot_block on a response

mainVars == <<client, world, EMAIL_INPUT, pc, properties, idx, hotel_name,
              chain_code, attempt, calls, sleeps, tw_url, official_url, q,
              evidence, notes, best, finding, all_booking_findings,
              output_rows, run_status, crash_file>>
rkVars == <<rk_pc, rk_urls, rk_scored, rk_result>>
nzVars == <<nz_pc, nz_u, nz_base, nz_once, nz_twice>>
bbVars == <<bb_pc, bb_status, bb_html, bb_result>>
fnVars == <<rkVars, nzVars, bbVars>>
vars == <<mainVars, fnVars>>

Note(msg) == [msg |-> msg, status |-> 0, url |-> <<>>]
NoteStatus(msg, status) == [msg |-> msg, status |-> status, url |-> <<>>]
NoteUrl(msg, url) == [msg |-> msg, status |-> 0, url |-> url]

N_twFound == "TravelWeekly hotel page found."
N_twNotFound == "TravelWeekly hotel page not found."
N_twBlocked == "TravelWeekly fetch blocked/unavailable (HTTP {status})."
N_twError == "TravelWeekly fetch error: {repr(e)}"
N_offCandidate == "Official URL candidate: {official_url}"
N_offBlocked == "Official site HTML appears bot-blocked; skipping deep parse."
N_offFailed == "Official site fetch failed (HTTP {status})."
N_offError == "Official site fetch error: {repr(e)}"
N_offNone == "Official URL not available from Gemini."
N_affiliate == "Top evidence appears affiliate/OTA; may not reflect official CRS."
N_unknown == "No strong vendor fingerprint found; evidence may be generic booking paths."

GeminiAttempts == 3
SleepBase == 6
EvidenceCap == 80

Backoff_mut(n) == SleepBase

\* await asyncio.sleep(6 * attempt)
Backoff(n) == SleepBase * n

\* what one generate_content call can do: raise (rate limit, network),
\* answer text that is not JSON, answer null, or answer a value
GeminiFailures == {"raise", "garbage"}
ChainAnswers == GeminiFailures \cup {"null", "PW"}
UrlAnswers == GeminiFailures \cup {"null", "bare", "full"}

\* the "url" field of the JSON answer
AnsweredUrl(o) ==
    IF o = "full" THEN <<" ">> \o U_official
    ELSE IF o = "bare" THEN <<"inn", ".com">>
    ELSE <<>>

FewWorlds ==
    {w \in Worlds :
        /\ w.twSearch = NetErr
        /\ w.twDetail = NetErr
        /\ w.official = NetErr
        /\ w.ddgLite = NetErr}

\* no stand-alone normalize_url or looks_like_bot_block call is under way
NormIdle ==
    /\ nz_pc = "idle"
    /\ nz_u = <<>>
    /\ nz_base = <<>>
    /\ nz_once = <<>>
    /\ nz_twice = <<>>

BotIdle ==
    /\ bb_pc = "idle"
    /\ bb_status = 0
    /\ bb_html = NoHtml
    /\ bb_result = FALSE

\* a run: whether a Gemini client exists, the raw input, the world; the
\* official site is only fetched through a client
Scenarios ==
    {<<TRUE, I_name, w>> : w \in Worlds} \cup
    {<<FALSE, I_name, w>> : w \in {v \in Worlds : v.official = NetErr}} \cup
    {<<c, r, w>> : c \in BOOLEAN, r \in RawInputs, w \in FewWorlds}

Init ==
    /\ \E sc \in Scenarios :
        /\ client = sc[1]
        /\ EMAIL_INPUT = Strip(sc[2])
        /\ world = sc[3]
    /\ pc = "main"
    /\ properties = <<>>
    /\ idx = 0
    /\ hotel_name = <<>>
    /\ chain_code = ""
    /\ attempt = 0
    /\ calls = 0
    /\ sleeps = <<>>
    /\ tw_url = <<>>
    /\ official_url = <<>>
    /\ q = 0
    /\ evidence = <<>>
    /\ notes = <<>>
    /\ best = EmptyResult
    /\ finding = <<>>
    /\ all_booking_findings = <<>>
    /\ output_rows = <<>>
    /\ run_status = "starting"
    /\ crash_file = FALSE
    /\ rk_pc = "idle"
    /\ rk_urls = <<>>
    /\ rk_scored = <<>>
    /\ rk_result = EmptyResult
    /\ NormIdle
    /\ BotIdle

\* ------------------------------------------------------------------------
\* main
\* ------------------------------------------------------------------------

\* lines 549-580: refuse an empty input, else resolve the properties
MainStart ==
    /\ pc = "main"
    /\ IF EMAIL_INPUT = <<>>
       THEN /\ run_status' = "EMAIL_INPUT missing"
            /\ pc' = "exit"
            /\ UNCHANGED <<properties, idx>>
       ELSE /\ properties' = ResolveProperties(EMAIL_INPUT)
            /\ idx' = 0
            /\ pc' = "loop"
            /\ UNCHANGED run_status
    /\ UNCHANGED <<client, world, EMAIL_INPUT, hotel_name, chain_code, attempt,
                   calls, sleeps, tw_url, official_url, q, evidence, notes, best,
                   finding, all_booking_findings, output_rows, crash_file, fnVars>>

\* line 583: the for loop takes the next property or ends
LoopNext ==
    /\ pc \in {"loop", "recorded"}
    /\ IF idx < Len(properties)
       THEN /\ idx' = idx + 1
            /\ pc' = "start"
       ELSE /\ pc' = "finish"
            /\ UNCHANGED idx
    /\ UNCHANGED <<client, world, EMAIL_INPUT, properties, hotel_name, chain_code,
                   attempt, calls, sleeps, tw_url, official_url, q, evidence,
                   notes, best, finding, all_booking_findings, output_rows,
                   run_status, crash_file, fnVars>>

\* lines 584-588: the name to work with, then the chain-code lookup begins
Identity ==
    /\ pc = "start"
    /\ hotel_name' = Strip(properties[idx].hotel_name)
    /\ pc' = "chain"
    /\ attempt' = 1
    /\ calls' = 0
    /\ sleeps' = <<>>
    /\ UNCHANGED <<client, world, EMAIL_INPUT, properties, idx, chain_code,
                   tw_url, official_url, q, evidence, notes, best, finding,
                   all_booking_findings, output_rows, run_status, crash_file,
                   fnVars>>

\* ------------------------------------------------------------------------
\* gemini_chain_code_only
\* ------------------------------------------------------------------------

ChainReturn(cc) ==
    /\ chain_code' = cc
    /\ pc' = "tw_search"
    /\ attempt' = 0

\* lines 381-382
ChainNoClient ==
    /\ pc = "chain"
    /\ ~client
    /\ ChainReturn("UNKNOWN")
    /\ UNCHANGED <<calls, sleeps>>
    /\ UNCHANGED <<client, world, EMAIL_INPUT, properties, idx, hotel_name,
                   tw_url, official_url, q, evidence, notes, best, finding,
                   all_booking_findings, output_rows, run_status, crash_file,
                   fnVars>>

\* lines 388-399: one pass of the retry loop
ChainAttempt ==
    /\ pc = "chain"
    /\ client
    /\ attempt \in 1..GeminiAttempts
    /\ calls' = calls + 1
    /\ \E o \in ChainAnswers :
        IF o \in GeminiFailures
        THEN /\ sleeps' = Append(sleeps, Backoff(attempt))
             /\ attempt' = attempt + 1
             /\ UNCHANGED <<chain_code, pc>>
        ELSE /\ ChainReturn(IF o = "null" THEN "UNKNOWN" ELSE o)
             /\ UNCHANGED sleeps
    /\ UNCHANGED <<client, world, EMAIL_INPUT, properties, idx, hotel_name,
                   tw_url, official_url, q, evidence, notes, best, finding,
                   all_booking_findings, output_rows, run_status, crash_file,
                   fnVars>>

\* line 400: the loop ran out
ChainExhausted ==
    /\ pc = "chain"
    /\ client
    /\ attempt > GeminiAttempts
    /\ ChainReturn("UNKNOWN")
    /\ UNCHANGED <<calls, sleeps>>
    /\ UNCHANGED <<client, world, EMAIL_INPUT, properties, idx, hotel_name,
                   tw_url, official_url, q, evidence, notes, best, finding,
                   all_booking_findings, output_rows, run_status, crash_file,
                   fnVars>>

\* ------------------------------------------------------------------------
\* fingerprint_booking_vendor
\* ------------------------------------------------------------------------

\* lines 432-438, 447-448: the directory search
TwSearch ==
    /\ pc = "tw_search"
    /\ LET found == travelweekly_internal_search(world.twSearch)
       IN  /\ tw_url' = found
           /\ evidence' = <<>>
           /\ notes' = <<Note(IF found # <<>> THEN N_twFound ELSE N_twNotFound)>>
           /\ pc' = IF found # <<>> THEN "tw_fetch" ELSE "gem_url"
           /\ attempt' = IF found # <<>> THEN attempt ELSE 1
    /\ calls' = 0
    /\ sleeps' = <<>>
    /\ UNCHANGED <<client, world, EMAIL_INPUT, properties, idx, hotel_name,
                   chain_code, official_url, q, best, finding,
                   all_booking_findings, output_rows, run_status, crash_file,
                   fnVars>>

\* lines 439-446: the directory's hotel page
TwFetch ==
    /\ pc = "tw_fetch"
    /\ LET r == world.twDetail
       IN  IF r.err
           THEN /\ notes' = Append(notes, Note(N_twError))
                /\ UNCHANGED evidence
           ELSE IF r.status < 400 /\ r.html # NoHtml /\ ~looks_like_bot_block(r.html)
           THEN IF extract_raises(r.html, tw_url)
                THEN /\ notes' = Append(notes, Note(N_twError))
                     /\ UNCHANGED evidence
                ELSE /\ evidence' = evidence \o
                            extract_vendorish_links_from_html(r.html, tw_url)
                     /\ UNCHANGED notes
           ELSE /\ notes' = Append(notes, NoteStatus(N_twBlocked, r.status))
                /\ UNCHANGED evidence
    /\ pc' = "gem_url"
    /\ attempt' = 1
    /\ UNCHANGED <<client, world, EMAIL_INPUT, properties, idx, hotel_name,
                   chain_code, calls, sleeps, tw_url, official_url, q, best,
                   finding, all_booking_findings, output_rows, run_status,
                   crash_file, fnVars>>

\* gemini_official_url returned u (<<>> for None): lines 451-453, 465-466
UrlReturn(u) ==
    /\ official_url' = u
    /\ attempt' = 0
    /\ IF u # <<>>
       THEN /\ notes' = Append(notes, NoteUrl(N_offCandidate, u))
            /\ pc' = "official_fetch"
            /\ UNCHANGED q
       ELSE /\ notes' = Append(notes, Note(N_offNone))
            /\ pc' = "ddg"
            /\ q' = 1

\* lines 404-405
UrlNoClient ==
    /\ pc = "gem_url"
    /\ ~client
    /\ UrlReturn(<<>>)
    /\ UNCHANGED <<calls, sleeps>>
    /\ UNCHANGED <<client, world, EMAIL_INPUT, properties, idx, hotel_name,
                   chain_code, tw_url, evidence, best, finding,
                   all_booking_findings, output_rows, run_status, crash_file,
                   fnVars>>

\* lines 407-418: one pass of the retry loop
UrlAttempt ==
    /\ pc = "gem_url"
    /\ client
    /\ attempt \in 1..GeminiAttempts
    /\ calls' = calls + 1
    /\ \E o \in UrlAnswers :
        IF o \in GeminiFailures
        THEN /\ sleeps' = Append(sleeps, Backoff(attempt))
             /\ attempt' = attempt + 1
             /\ UNCHANGED <<official_url, notes, pc, q>>
        ELSE /\ UrlReturn(IF Strip(AnsweredUrl(o)) # <<>>
                          THEN normalize_url(Strip(AnsweredUrl(o)), <<>>) ELSE <<>>)
             /\ UNCHANGED sleeps
    /\ UNCHANGED <<client, world, EMAIL_INPUT, properties, idx, hotel_name,
                   chain_code, tw_url, evidence, best, finding,
                   all_booking_findings, output_rows, run_status, crash_file,
                   fnVars>>

\* line 419: the loop ran out
UrlExhausted ==
    /\ pc = "gem_url"
    /\ client
    /\ attempt > GeminiAttempts
    /\ UrlReturn(<<>>)
    /\ UNCHANGED <<calls, sleeps>>
    /\ UNCHANGED <<client, world, EMAIL_INPUT, properties, idx, hotel_name,
                   chain_code, tw_url, evidence, best, finding,
                   all_booking_findings, output_rows, run_status, crash_file,
                   fnVars>>

\* lines 454-464: the official site
OfficialFetch ==
    /\ pc = "official_fetch"
    /\ LET r == world.official
       IN  IF r.err
           THEN /\ notes' = Append(notes, Note(N_offError))
                /\ UNCHANGED evidence
           ELSE IF r.status < 400 /\ r.html # NoHtml
           THEN IF looks_like_bot_block(r.html)
                THEN /\ notes' = Append(notes, Note(N_offBlocked))
                     /\ UNCHANGED evidence
                ELSE IF extract_raises(r.html, official_url)
                THEN /\ notes' = Append(notes, Note(N_offError))
                     /\ UNCHANGED evidence
                ELSE /\ evidence' = evidence \o
                            extract_vendorish_links_from_html(r.html, official_url)
                     /\ UNCHANGED notes
           ELSE /\ notes' = Append(notes, NoteStatus(N_offFailed, r.status))
                /\ UNCHANGED evidence
    /\ pc' = "ddg"
    /\ q' = 1
    /\ calls' = 0
    /\ sleeps' = <<>>
    /\ UNCHANGED <<client, world, EMAIL_INPUT, properties, idx, hotel_name,
                   chain_code, attempt, tw_url, official_url, best, finding,
                   all_booking_findings, output_rows, run_status, crash_file,
                   fnVars>>

\* the links one query yields: the HTML search, else the lite search
QueryLinks(w, k) ==
    LET links == ddg_html_search(w.ddgHtml[k])
    IN  IF links = <<>> THEN ddg_lite_search(w.ddgLite) ELSE links

\* lines 469-484, one query: keep the strong candidates; host() raising on
\* a link is caught nowhere, so it ends the run at lines 617-621
DdgQuery ==
    /\ pc = "ddg"
    /\ q \in 1..NumQueries
    /\ LET links == QueryLinks(world, q)
       IN  IF search_raises(links)
           THEN /\ pc' = "crashed"
                /\ crash_file' = TRUE
                /\ UNCHANGED <<q, evidence>>
           ELSE /\ evidence' = evidence \o SearchFound(Take(links, LinkCap))
                /\ q' = q + 1
                /\ pc' = IF q = NumQueries THEN "dedupe" ELSE "ddg"
                /\ UNCHANGED crash_file
    /\ calls' = 0
    /\ sleeps' = <<>>
    /\ UNCHANGED <<client, world, EMAIL_INPUT, properties, idx, hotel_name,
                   chain_code, attempt, tw_url, official_url, notes, best,
                   finding, all_booking_findings, output_rows, run_status,
                   fnVars>>

\* lines 486-492
Dedupe ==
    /\ pc = "dedupe"
    /\ evidence' = Dedup(evidence)
    /\ pc' = "score"
    /\ UNCHANGED <<client, world, EMAIL_INPUT, properties, idx, hotel_name,
                   chain_code, attempt, calls, sleeps, tw_url, official_url, q,
                   notes, best, finding, all_booking_findings, output_rows,
                   run_status, crash_file, fnVars>>

\* line 494
Score ==
    /\ pc = "score"
    /\ best' = best_vendor_from_evidence(evidence)
    /\ pc' = "assemble"
    /\ UNCHANGED <<client, world, EMAIL_INPUT, properties, idx, hotel_name,
                   chain_code, attempt, calls, sleeps, tw_url, official_url, q,
                   evidence, notes, finding, all_booking_findings, output_rows,
                   run_status, crash_file, fnVars>>

\* vendor.startswith("Affiliate")
IsAffiliateName(v) == v = Affiliate

BookingFinding(name, urls, vendor, url, conf, ns) ==
    [hotel_name |-> name, evidence_urls |-> urls, vendor |-> vendor,
     vendor_evidence_url |-> url, confidence |-> conf, notes |-> ns]

\* lines 496-509
Assemble ==
    /\ pc = "assemble"
    /\ LET n1 == IF IsAffiliateName(best.vendor)
                 THEN Append(notes, Note(N_affiliate)) ELSE notes
           n2 == IF best.vendor = Unknown THEN Append(n1, Note(N_unknown)) ELSE n1
       IN  /\ notes' = n2
           /\ finding' = <<BookingFinding(hotel_name, Take(evidence, EvidenceCap),
                                          best.vendor, best.url, best.conf, n2)>>
    /\ pc' = "record"
    /\ UNCHANGED <<client, world, EMAIL_INPUT, properties, idx, hotel_name,
                   chain_code, attempt, calls, sleeps, tw_url, official_url, q,
                   evidence, best, all_booking_findings, output_rows,
                   run_status, crash_file, fnVars>>

OutputRow(prop, name, cc, f) ==
    [hotel_name |-> name,
     zoominfo_category |-> prop.category,
     zoominfo_score |-> prop.score,
     gds_chain_code |-> cc,
     booking_vendor |-> f.vendor,
     vendor_evidence_url |-> f.vendor_evidence_url,
     confidence |-> f.confidence,
     notes |-> f.notes]

\* lines 593-608
Record ==
    /\ pc = "record"
    /\ all_booking_findings' = Append(all_booking_findings, finding[1])
    /\ output_rows' = Append(output_rows,
                             OutputRow(properties[idx], hotel_name, chain_code, finding[1]))
    /\ run_status' = "processed"
    /\ pc' = "recorded"
    /\ finding' = <<>>
    /\ evidence' = <<>>
    /\ notes' = <<>>
    /\ best' = EmptyResult
    /\ tw_url' = <<>>
    /\ official_url' = <<>>
    /\ q' = 0
    /\ chain_code' = ""
    /\ UNCHANGED <<client, world, EMAIL_INPUT, properties, idx, hotel_name,
                   attempt, calls, sleeps, crash_file, fnVars>>

\* lines 610-613
Finish ==
    /\ pc = "finish"
    /\ run_status' = "done"
    /\ pc' = "exit"
    /\ UNCHANGED <<client, world, EMAIL_INPUT, properties, idx, hotel_name,
                   chain_code, attempt, calls, sleeps, tw_url, official_url, q,
                   evidence, notes, best, finding, all_booking_findings,
                   output_rows, crash_file, fnVars>>

Next ==
    \/ MainStart
    \/ LoopNext
    \/ Identity
    \/ ChainNoClient
    \/ ChainAttempt
    \/ ChainExhausted
    \/ TwSearch
    \/ TwFetch
    \/ UrlNoClient
    \/ UrlAttempt
    \/ UrlExhausted
    \/ OfficialFetch
    \/ DdgQuery
    \/ Dedupe
    \/ Score
    \/ Assemble
    \/ Record
    \/ Finish

Spec == Init /\ [][Next]_vars

\* ------------------------------------------------------------------------
\* best_vendor_from_evidence on its own, for any candidate list
\* ------------------------------------------------------------------------

U_both == <<"https:", "/", "/", "www.", "reservation", "s", ".com", "/", "shr">>
U_upper == <<"https:", "/", "/", "be.", "SynXis", ".com", "/", "Book">>

RankUrls == {U_synxis, U_upper, U_cloudbeds, U_both, U_affil, U_planner,
             U_book, U_myres, U_about}

\* the longest candidate list tried
MaxCands == 3

CandidateLists == UNION {[1..n -> RankUrls] : n \in 0..MaxCands}

InitRank ==
    /\ rk_urls \in CandidateLists
    /\ rk_pc = "call"
    /\ rk_scored = <<>>
    /\ rk_result = EmptyResult
    /\ client = FALSE
    /\ world = CHOOSE w \in FewWorlds : TRUE
    /\ EMAIL_INPUT = <<>>
    /\ pc = "idle"
    /\ properties = <<>>
    /\ idx = 0
    /\ hotel_name = <<>>
    /\ chain_code = ""
    /\ attempt = 0
    /\ calls = 0
    /\ sleeps = <<>>
    /\ tw_url = <<>>
    /\ official_url = <<>>
    /\ q = 0
    /\ evidence = <<>>
    /\ notes = <<>>
    /\ best = EmptyResult
    /\ finding = <<>>
    /\ all_booking_findings = <<>>
    /\ output_rows = <<>>
    /\ run_status = "starting"
    /\ crash_file = FALSE
    /\ NormIdle
    /\ BotIdle

\* lines 155-156
RankEmpty ==
    /\ rk_pc = "call"
    /\ rk_urls = <<>>
    /\ rk_result' = best_vendor_from_evidence(rk_urls)
    /\ rk_pc' = "done"
    /\ UNCHANGED <<rk_urls, rk_scored, mainVars, nzVars, bbVars>>

\* lines 158-170
RankScore ==
    /\ rk_pc = "call"
    /\ rk_urls # <<>>
    /\ rk_scored' = ScoreAll(rk_urls)
    /\ rk_pc' = "scored"
    /\ UNCHANGED <<rk_urls, rk_result, mainVars, nzVars, bbVars>>

\* lines 172-179
RankPick ==
    /\ rk_pc = "scored"
    /\ rk_scored' = SortByScoreDesc(rk_scored) \o <<>>
    /\ rk_result' = PickTop(rk_scored')
    /\ rk_pc' = "done"
    /\ UNCHANGED <<rk_urls, mainVars, nzVars, bbVars>>

NextRank == RankEmpty \/ RankScore \/ RankPick

SpecRank == InitRank /\ [][NextRank]_vars

\* ------------------------------------------------------------------------
\* Properties
\* ------------------------------------------------------------------------

InSeq(x, sq) == \E k \in 1..Len(sq) : sq[k] = x

\* the findings emitted so far, the one being recorded included
Findings == all_booking_findings \o finding

\* C1: whatever the input and the sources do, the run never raises, and when
\* main has returned every resolved property has exactly one finding.
C1_Totality ==
    /\ pc # "crashed"
    /\ ~crash_file
    /\ (pc = "exit" => Len(all_booking_findings) = Len(properties))

\* the state of the section 4.6 machine that main is in for the current
\* property ("Idle" between properties, "Raised" once an exception escaped)
Stage ==
    CASE pc = "start" -> "Start"
      [] pc \in {"chain", "tw_search", "tw_fetch", "gem_url", "official_fetch", "ddg"}
            -> "IdentityResolved"
      [] pc \in {"dedupe", "score"} -> "CandidatesGathered"
      [] pc = "assemble" -> "Scored"
      [] pc = "record" -> "EvidenceAttempted"
      [] pc = "recorded" -> "Done"
      [] pc = "crashed" -> "Raised"
      [] OTHER -> "Idle"

StageOrder == <<"Start", "IdentityResolved", "CandidatesGathered", "Scored",
                "EvidenceAttempted", "Done">>

\* C2: a property's processing moves through Start, IdentityResolved,
\* CandidatesGathered, Scored, EvidenceAttempted, Done one state at a time:
\* a property once started leaves a state only for the next one, and only
\* Done is left for the next property or the end of the run.
C2_StageOrder ==
    [][Stage' # Stage =>
          \/ \E k \in 1..(Len(StageOrder) - 1) :
                Stage = StageOrder[k] /\ Stage' = StageOrder[k + 1]
          \/ Stage = "Idle" /\ Stage' = "Start"
          \/ Stage = "Done" /\ Stage' \in {"Start", "Idle"}]_vars

\* C3: in every finding, a non-empty vendor_evidence_url is one of the
\* finding's evidence_urls.
C3_EvidenceUrlIsListed ==
    \A k \in 1..Len(Findings) :
        Findings[k].vendor_evidence_url # <<>> =>
            InSeq(Findings[k].vendor_evidence_url, Findings[k].evidence_urls)

\* the confidence the engine reports when it selects this scored entry
ReportedBand(e) == PickTop(<<e>>).conf

BandRank(b) == CASE b = "High" -> 3 [] b = "Medium" -> 2 [] OTHER -> 1

\* C4: of two scored candidates, the one in the higher reported band (High
\* over Medium over Low) has the strictly higher score.
C4_BandsOrderScores ==
    rk_pc = "scored" =>
        \A i, j \in 1..Len(rk_scored) :
            BandRank(ReportedBand(rk_scored[i])) > BandRank(ReportedBand(rk_scored[j]))
                => rk_scored[i].score > rk_scored[j].score

\* a URL without its trailing slash
NoTrailingSlash(u) ==
    IF u # <<>> /\ u[Len(u)] = "/" THEN SubSeq(u, 1, Len(u) - 1) ELSE u

\* C5: a finding's evidence list holds each candidate once: no two entries
\* are the same URL up to a trailing slash.
C5_DedupIgnoresTrailingSlash ==
    \A k \in 1..Len(Findings) :
        \A i, j \in 1..Len(Findings[k].evidence_urls) :
            NoTrailingSlash(Findings[k].evidence_urls[i])
                = NoTrailingSlash(Findings[k].evidence_urls[j]) => i = j

\* classified as blocked: status >= 400, or a verification phrase in the body
IsBlocked(r) == ~r.err /\ (r.status >= 400 \/ looks_like_bot_block(r.html))

HasNote(f, msgs) == \E k \in 1..Len(f.notes) : f.notes[k].msg \in msgs

\* the notes of the program that report a blocked or refused fetch, by source
DirectoryBlockedNotes == {N_twBlocked}
OfficialBlockedNotes == {N_offBlocked, N_offFailed}
SearchBlockedNotes == {}

\* the search pages fetched for one property
SearchPagesFetched ==
    {world.ddgHtml[k] : k \in 1..NumQueries} \cup
    (IF \E k \in 1..NumQueries : ddg_html_search(world.ddgHtml[k]) = <<>>
     THEN {world.ddgLite} ELSE {})

\* C6: when a page fetched for a property was blocked, the finding's notes
\* say that that source was blocked, and the blocked page is not the
\* finding's evidence URL.
C6_BlockedIsNoted ==
    pc = "record" =>
        LET f == finding[1]
        IN  /\ IsBlocked(world.twSearch) => HasNote(f, DirectoryBlockedNotes)
            /\ (tw_url # <<>> /\ IsBlocked(world.twDetail)) =>
                    /\ HasNote(f, DirectoryBlockedNotes)
                    /\ f.vendor_evidence_url # tw_url
            /\ (official_url # <<>> /\ IsBlocked(world.official)) =>
                    /\ HasNote(f, OfficialBlockedNotes)
                    /\ f.vendor_evidence_url # official_url
            /\ (\E r \in SearchPagesFetched : IsBlocked(r)) =>
                    HasNote(f, SearchBlockedNotes)

\* what the directory contributes on its own
DirectoryCandidates ==
    LET r == world.twDetail
    IN  IF tw_url = <<>> \/ r.err \/ r.status >= 400 \/ r.html = NoHtml
           \/ looks_like_bot_block(r.html) \/ extract_raises(r.html, tw_url)
        THEN <<>>
        ELSE extract_vendorish_links_from_html(r.html, tw_url)

\* what the official site contributes on its own
OfficialCandidates ==
    LET r == world.official
    IN  IF official_url = <<>> \/ r.err \/ r.status >= 400 \/ r.html = NoHtml
           \/ looks_like_bot_block(r.html) \/ extract_raises(r.html, official_url)
        THEN <<>>
        ELSE extract_vendorish_links_from_html(r.html, official_url)

\* what the searches for queries k..NumQueries contribute on their own; a
\* query whose links cannot be read (a malformed link) contributes nothing
RECURSIVE SearchCandidates(_)
SearchCandidates(k) ==
    IF k > NumQueries THEN <<>>
    ELSE (IF search_raises(QueryLinks(world, k)) THEN <<>>
          ELSE SearchFound(Take(QueryLinks(world, k), LinkCap)))
         \o SearchCandidates(k + 1)

\* C7: a failing source never stops the others: gathering always ends with
\* every source having run, and the candidates are those of the sources
\* that did not fail, in source order.
C7_SourceIsolation ==
    /\ pc = "crashed" => FALSE
    /\ pc = "dedupe" =>
          evidence = DirectoryCandidates \o OfficialCandidates \o SearchCandidates(1)

\* the vendor names whose patterns the URL matches
VendorsOf(u) == {VENDOR_PATTERNS[v].vendor : v \in VendorHits(u)}

\* C8: when some candidate matches a vendor pattern, ranking returns one of
\* the candidates that does, with a vendor it matches and confidence High.
C8_VendorPatternWins ==
    (rk_pc = "done" /\ \E i \in 1..Len(rk_urls) : VendorsOf(rk_urls[i]) # {}) =>
        /\ InSeq(rk_result.url, rk_urls)
        /\ rk_result.vendor \in VendorsOf(rk_result.url)
        /\ rk_result.conf = "High"

\* a vendor URL listed after an affiliate URL and an unknown booking URL
C8_Witness ==
    /\ rk_pc = "done"
    /\ Len(rk_urls) = 3
    /\ rk_urls[1] = U_affil
    /\ rk_urls[2] = U_book
    /\ rk_urls[3] = U_cloudbeds
    /\ rk_result.url = U_cloudbeds

\* C9: with no candidates gathered the finding is Unknown / Low with an
\* empty evidence URL and an empty evidence list.
C9_NoCandidates ==
    /\ (pc = "record" /\ evidence = <<>>) =>
          /\ finding[1].vendor = "Unknown"
          /\ finding[1].confidence = "Low"
          /\ finding[1].vendor_evidence_url = <<>>
          /\ finding[1].evidence_urls = <<>>
    /\ \A k \in 1..Len(all_booking_findings) :
          all_booking_findings[k].evidence_urls = <<>> =>
              /\ all_booking_findings[k].vendor = "Unknown"
              /\ all_booking_findings[k].confidence = "Low"
              /\ all_booking_findings[k].vendor_evidence_url = <<>>

\* every source answered and none gave a candidate
C9_Witness ==
    /\ pc = "record"
    /\ evidence = <<>>
    /\ client
    /\ official_url # <<>>
    /\ tw_url # <<>>

\* C10 as stated: the delays a lookup sleeps after its failed attempts grow
\* exponentially, each twice the one before.
C10_ExponentialBackoff ==
    \A k \in 2..Len(sleeps) : sleeps[k] = 2 * sleeps[k - 1]

\* C10 as amended: a lookup calls the service at most three times, sleeps
\* 6 s times the attempt number after each failed attempt (6, 12, 18), and
\* once the three attempts are used up returns the unavailable value.
C10_LinearBackoff ==
    /\ [](/\ calls <= 3
          /\ Len(sleeps) <= 3
          /\ \A k \in 1..Len(sleeps) : sleeps[k] = 6 * k
          /\ (pc \in {"chain", "gem_url"} /\ client) =>
                (calls = attempt - 1 /\ Len(sleeps) = calls))
    /\ [][/\ (pc = "chain" /\ calls = 3 /\ Len(sleeps) = 3) =>
                (pc' = "tw_search" /\ chain_code' = "UNKNOWN" /\ calls' = calls)
          /\ (pc = "gem_url" /\ calls = 3 /\ Len(sleeps) = 3) =>
                (pc' = "ddg" /\ official_url' = <<>> /\ calls' = calls)]_vars

\* three attempts failed and the lookup is about to give up
C10_Witness ==
    /\ pc = "gem_url"
    /\ calls = 3
    /\ sleeps = <<6, 12, 18>>

\* ------------------------------------------------------------------------
\* Identity resolution of a short single-line input
\* ------------------------------------------------------------------------

\* len() of one token of the input alphabet
TokChars(t) ==
    CASE t \in OneCharToks \cup {"7"} -> 1
      [] t \in {"64", "<a"} -> 2
      [] t \in {"The", "Inn"} -> 3
      [] t = "</a>" -> 4
      [] t \in {"Reeds", "reeds"} -> 5
      [] t \in {"System", "Global"} -> 6
      [] t \in {"Property", "Software"} -> 8
      [] t = "Management" -> 10
      [] t = "Reservation" -> 11
      [] t = "Distribution" -> 12

\* len(b)
RECURSIVE CharLen(_)
CharLen(s) == IF s = <<>> THEN 0 ELSE TokChars(Head(s)) + CharLen(Tail(s))

\* line 257: the length up to which an input counts as short
ShortLen == 140

\* "\n" not in b and len(b) <= 140, for a non-empty b
ShortSingleLine(b) ==
    /\ b # <<>>
    /\ \A i \in 1..Len(b) : b[i] # "\n"
    /\ CharLen(b) <= ShortLen

\* C11: when the input is a non-empty short single line (no line break, at
\* most 140 characters), the properties main resolves are exactly one
\* property whose name is the input unchanged, and no Gemini call has been
\* made by then.
C11_ShortLineUnchanged ==
    (pc = "loop" /\ idx = 0 /\ ShortSingleLine(EMAIL_INPUT)) =>
        /\ Len(properties) = 1
        /\ properties[1].hotel_name = EMAIL_INPUT
        /\ calls = 0

\* the same for short single lines that hold no category phrase and no
\* anchor markup (detect_input_mode answers "single")
C11_PlainNameUnchanged ==
    (pc = "loop" /\ idx = 0 /\ ShortSingleLine(EMAIL_INPUT)
        /\ detect_input_mode(EMAIL_INPUT) = "single") =>
        /\ Len(properties) = 1
        /\ properties[1].hotel_name = EMAIL_INPUT
        /\ calls = 0

\* ------------------------------------------------------------------------
\* normalize_url on its own, applied to its own result
\* ------------------------------------------------------------------------

\* main has not run
MainIdle ==
    /\ client = FALSE
    /\ world = CHOOSE w \in FewWorlds : TRUE
    /\ EMAIL_INPUT = <<>>
    /\ pc = "idle"
    /\ properties = <<>>
    /\ idx = 0
    /\ hotel_name = <<>>
    /\ chain_code = ""
    /\ attempt = 0
    /\ calls = 0
    /\ sleeps = <<>>
    /\ tw_url = <<>>
    /\ official_url = <<>>
    /\ q = 0
    /\ evidence = <<>>
    /\ notes = <<>>
    /\ best = EmptyResult
    /\ finding = <<>>
    /\ all_booking_findings = <<>>
    /\ output_rows = <<>>
    /\ run_status = "starting"
    /\ crash_file = FALSE

RankIdle ==
    /\ rk_pc = "idle"
    /\ rk_urls = <<>>
    /\ rk_scored = <<>>
    /\ rk_result = EmptyResult

\* the pieces URL strings are made of here, and the longest string tried
NormToks == {"/", "https:", "http:", "HTTPS:", "inn", " ", "?", "#", "["}
MaxUrlToks == 4

NormInputs == UNION {[1..n -> NormToks] : n \in 0..MaxUrlToks}

\* no base, or the URL of the page the link was found on
NormBases == {<<>>, U_official}

InitNorm ==
    /\ nz_u \in NormInputs
    /\ nz_base \in NormBases
    /\ nz_pc = "call"
    /\ nz_once = <<>>
    /\ nz_twice = <<>>
    /\ MainIdle
    /\ RankIdle
    /\ BotIdle

\* normalize_url(u, base)
NormFirst ==
    /\ nz_pc = "call"
    /\ IF normalize_url_raises(nz_u, nz_base)
       THEN /\ nz_pc' = "raised"
            /\ UNCHANGED nz_once
       ELSE /\ nz_once' = normalize_url(nz_u, nz_base)
            /\ nz_pc' = "once"
    /\ UNCHANGED <<nz_u, nz_base, nz_twice, mainVars, rkVars, bbVars>>

\* normalize_url of that result, with the same base
NormSecond ==
    /\ nz_pc = "once"
    /\ IF normalize_url_raises(nz_once, nz_base)
       THEN /\ nz_pc' = "raised"
            /\ UNCHANGED nz_twice
       ELSE /\ nz_twice' = normalize_url(nz_once, nz_base)
            /\ nz_pc' = "twice"
    /\ UNCHANGED <<nz_u, nz_base, nz_once, mainVars, rkVars, bbVars>>

NextNorm == NormFirst \/ NormSecond

SpecNorm == InitNorm /\ [][NextNorm]_vars

\* C12: normalizing a normalized URL changes nothing, whatever the URL
\* string and with the same base (or none) in both applications.
C12_NormalizeIdempotent ==
    nz_pc = "twice" => nz_twice = nz_once

\* the same without a base
C12_IdempotentWithoutBase ==
    (nz_pc = "twice" /\ nz_base = <<>>) => nz_twice = nz_once

\* ------------------------------------------------------------------------
\* looks_like_bot_block on its own, for any fetched response
\* ------------------------------------------------------------------------

\* the words page texts are made of here ("check-in" holds the "check" of
\* the pattern "security check"), and the longest text tried, in words
BotWords == {<<"Verify">>, <<"VERIFY">>, <<"you">>, <<"YOU">>, <<"are">>,
             <<"human">>, <<"HUMAN">>, <<"check", "-in">>, <<"availability">>,
             <<"security">>}
MaxWords == 4

BotTexts == {JoinWords(ws) : ws \in UNION {[1..n -> BotWords] : n \in 0..MaxWords}}

\* the page has no markup, or loads a script from a CDN
U_cdn == <<"https:", "/", "/", "cdnjs.", "cloudflare", ".com", "/", "x">>
BotTags == {<<>>, <<Tag("script", U_cdn)>>}

BotStatuses == {200, 403}

InitBot ==
    /\ bb_status \in BotStatuses
    /\ bb_html \in {Html(t, g) : t \in BotTexts, g \in BotTags}
    /\ bb_pc = "call"
    /\ bb_result = FALSE
    /\ MainIdle
    /\ RankIdle
    /\ NormIdle

\* looks_like_bot_block(html) on the body of the response
BotCheck ==
    /\ bb_pc = "call"
    /\ bb_result' = looks_like_bot_block(bb_html)
    /\ bb_pc' = "done"
    /\ UNCHANGED <<bb_status, bb_html, mainVars, rkVars, nzVars>>

NextBot == BotCheck

SpecBot == InitBot /\ [][NextBot]_vars

\* the spellings of "Verify you are human" looked for
VerifyForms == << {"Verify", "VERIFY", "verify"}, {" "}, {"you", "YOU"}, {" "},
                  {"are"}, {" "}, {"human", "HUMAN"} >>

ContainsVerifyPhrase(text) ==
    \E i \in 1..Len(text) :
        /\ i + Len(VerifyForms) - 1 <= Len(text)
        /\ \A k \in 1..Len(VerifyForms) : text[i + k - 1] \in VerifyForms[k]

\* a blocking phrase occurs, in any letter case, in one piece of the body
PhraseIn(piece) ==
    \E n \in 1..Len(BOT_BLOCK_PATTERNS) : \E i \in 1..Len(piece) :
        LET p == BOT_BLOCK_PATTERNS[n]
        IN  /\ i + Len(p) - 1 <= Len(piece)
            /\ \A k \in 1..Len(p) : LowerTok(piece[i + k - 1]) = p[k]

HasBlockingPhrase(html) ==
    \/ PhraseIn(html.text)
    \/ \E j \in 1..Len(html.tags) : PhraseIn(html.tags[j].ref)

\* occurrences of the booking-UI keywords "check-in" and "availability"
KeywordCount(text) ==
    Cardinality({i \in 1..Len(text) :
                    \/ MatchAt(text, i, <<"check", "-in">>)
                    \/ MatchAt(text, i, <<"availability">>)})

\* C13: a body that holds the phrase "Verify you are human" in any letter
\* case is classified as a bot wall whatever the status code of the
\* response; a body fetched with status 200 that holds at least two
\* booking-UI keywords and none of the blocking phrases is not.
C13_BotWallClassification ==
    bb_pc = "done" =>
        /\ ContainsVerifyPhrase(bb_html.text) => bb_result
        /\ (/\ bb_status = 200
            /\ KeywordCount(bb_html.text) >= 2
            /\ ~HasBlockingPhrase(bb_html)) => ~bb_result

\* a response with an error status whose body is the phrase in capitals
C13_Witness ==
    /\ bb_pc = "done"
    /\ bb_status = 403
    /\ bb_html.text = <<"VERIFY", " ", "YOU", " ", "are", " ", "HUMAN">>
    /\ bb_result

\* a page served with status 200 that shows a booking form and no challenge
C13_BookingPage ==
    /\ bb_pc = "done"
    /\ bb_status = 200
    /\ bb_html = Html(<<"check", "-in", " ", "availability">>, <<>>)
    /\ ~bb_result

====
